---- MODULE Spec2Model ----
(***************************************************************************)
(* Recipe Explorer backend: the saved-recipe store (db/crud.py, db/models.py),*)
(* the request handlers over it (api/users.py), authentication (api/auth.py)  *)
(* and the recipe gateway (services/spoonacular.py, api/recipes.py).          *)
(***************************************************************************)
EXTENDS Integers, Sequences, FiniteSets, TLC

VARIABLES
    saved,      \* table saved_recipes: a set of rows
    users,      \* table users: a set of rows
    now,        \* the wall clock (datetime.utcnow), in ticks
    pc,         \* per worker: where its current request stands
    req,        \* per worker: the request it serves
    loc,        \* per worker: the ORM objects its session holds (existing / item / row)
    resp,       \* per worker: the response of its request
    started,    \* number of requests accepted so far
    hist,       \* completed requests of the sequential client, oldest first
    jwt_secret, \* JWT_SECRET of the environment ("" when not set)
    token,      \* the access token the client holds
    session,    \* per worker: the state of the get_db session of its request
    api_key,    \* SPOONACULAR_API_KEY of the environment ("" when not set)
    outbound    \* per worker: the calls its request sent upstream and the answer it got

vars == <<saved, users, now, pc, req, loc, resp, started, hist, jwt_secret, session, api_key, outbound, token>>

----------------------------------------------------------------------------
(* Bounds *)

NumProcs == 2
MaxRequests == 3
MaxClock == 1

Procs == 1..NumProcs

(* Input domains *)

Emails == {"a@x.com", "b@x.com"}
RecipeIds == {55}

SnapFields == {"title", "image", "source_url", "aggregate_likes", "ready_in_minutes", "summary"}

Snap(a, b) ==
    [title |-> a, image |-> a, source_url |-> a,
     aggregate_likes |-> b, ready_in_minutes |-> b, summary |-> b]

Snapshots == {Snap(1, 1), Snap(2, 1), Snap(1, 2)}

FullSnapshots == {Snap(1, 1), Snap(2, 2)}

----------------------------------------------------------------------------
(* db/models.py *)

User(id, email, password_hash, created_at) ==
    [id |-> id, email |-> email, password_hash |-> password_hash, created_at |-> created_at]

SavedRecipe(id, user_id, recipe_id, d, created_at) ==
    [id |-> id, user_id |-> user_id, recipe_id |-> recipe_id,
     title |-> d.title, image |-> d.image, source_url |-> d.source_url,
     aggregate_likes |-> d.aggregate_likes, ready_in_minutes |-> d.ready_in_minutes,
     summary |-> d.summary, created_at |-> created_at]

SnapOf(row) == [f \in SnapFields |-> row[f]]

MaxOf(S) == IF S = {} THEN 0 ELSE CHOOSE m \in S : \A x \in S : x <= m

\* Integer primary key of the default SQLite store: one more than the largest id in the table.
NewId(table) == MaxOf({x.id : x \in table}) + 1

\* A table declared without the constraint rejects nothing.
NoConstraintUqUserRecipe(table, u, r) == FALSE

\* UniqueConstraint("user_id", "recipe_id"): does inserting (u, r) into the table violate it?
ViolatesUqUserRecipe(table, u, r) ==
    \E x \in table : x.user_id = u /\ x.recipe_id = r

----------------------------------------------------------------------------
(* Requests and responses *)

NoData == Snap(0, 0)

NoToken ==
    [kind |-> "none", sig |-> "", has_sub |-> FALSE, sub |-> "", exp |-> 0,
     iat |-> 0, ttl_given |-> FALSE, ttl |-> 0]

NoReq ==
    [op |-> "none", user_id |-> 0, recipe_id |-> 0, data |-> NoData,
     email |-> "", password |-> "", token |-> NoToken]

\* A call of a handler's body for current_user.id = u.
Request(op, u, r, d) == [NoReq EXCEPT !.op = op, !.user_id = u, !.recipe_id = r, !.data = d]

NoResp == [status |-> 0, rows |-> {}, error |-> ""]

Response(status, rows) == [status |-> status, rows |-> rows, error |-> ""]

\* FastAPI answers an exception no handler catches with 500.
Unhandled(error) == [status |-> 500, rows |-> {}, error |-> error]

\* save_recipe_for_me: except Exception -> HTTP 400.
SaveRecipeCatch(error) == [status |-> 400, rows |-> {}, error |-> error]

TheOne(S) == CHOOSE x \in S : TRUE

\* No answer from upstream (yet).
NoReply == [kind |-> "none", status |-> 0, body |-> "none"]

\* What a request without outbound calls has exchanged with the upstream API.
NoOutbound == [sent |-> <<>>, got |-> NoReply]

\* get_db up to its yield: db = SessionLocal()
get_db(p) == session' = [session EXCEPT ![p] = "open"]

\* A get_db that closes after the yield without a finally: only when the handler
\* returned, not when it raised.
CloseSessionOnReturn(p) ==
    session' = [session EXCEPT ![p] = IF resp[p].status < 400 THEN "closed" ELSE @]

\* get_db after its yield: finally: db.close()
CloseSession(p) == session' = [session EXCEPT ![p] = "closed"]

Accept(p) == pc[p] = "idle" /\ started < MaxRequests /\ started' = started + 1

Reply(p, r) ==
    /\ pc' = [pc EXCEPT ![p] = "done"]
    /\ resp' = [resp EXCEPT ![p] = r]
    /\ loc' = [loc EXCEPT ![p] = {}]

Goto(p, label, objects) ==
    /\ pc' = [pc EXCEPT ![p] = label]
    /\ loc' = [loc EXCEPT ![p] = objects]
    /\ UNCHANGED resp

----------------------------------------------------------------------------
(* db/crud.py *)

\* select(SavedRecipe).where(user_id == u, recipe_id == r)
SelectSaved(table, u, r) == {x \in table : x.user_id = u /\ x.recipe_id = r}

\* An update path that leaves out the assignment of summary.
ChangedFieldsButSummary(loaded, d) == {f \in SnapFields \ {"summary"} : loaded[f] # d[f]}

\* The six assignments of the update path; the unit of work writes the columns whose
\* new value differs from the loaded one.
ChangedFields(loaded, d) == {f \in SnapFields : loaded[f] # d[f]}

AssignFields(row, d, fields) ==
    [f \in DOMAIN row |-> IF f \in fields THEN d[f] ELSE row[f]]

\* list_saved
list_saved(table, u) == {x \in table : x.user_id = u}

\* list_my_saved_recipes: GET /users/me/saved for current_user.id = u
ListSavedDo(p, u) == Reply(p, Response(200, list_saved(saved, u)))

ListSaved(p, u) ==
    /\ Accept(p)
    /\ req' = [req EXCEPT ![p] = Request("list", u, 0, NoData)]
    /\ ListSavedDo(p, u)
    /\ get_db(p)
    /\ UNCHANGED <<saved, users, now, hist, jwt_secret, api_key, outbound, token>>

\* upsert_saved, the existence check.
UpsertSelectDo(p, u, r) ==
    LET found == SelectSaved(saved, u, r) IN
        IF Cardinality(found) > 1 THEN Reply(p, SaveRecipeCatch("MultipleResultsFound"))
        ELSE IF found # {} THEN Goto(p, "update", found)
        ELSE Goto(p, "insert", {})

\* save_recipe_for_me: POST /users/me/saved for current_user.id = u
UpsertSelect(p, u, r, d) ==
    /\ Accept(p)
    /\ req' = [req EXCEPT ![p] = Request("upsert", u, r, d)]
    /\ UpsertSelectDo(p, u, r)
    /\ get_db(p)
    /\ UNCHANGED <<saved, users, now, hist, jwt_secret, api_key, outbound, token>>

\* upsert_saved, the update path: assign the six fields, add, commit.
UpsertUpdate(p) ==
    /\ pc[p] \in {"update", "update2"}
    /\ LET existing == TheOne(loc[p])
           changed == ChangedFields(existing, req[p].data)
           target == {x \in saved : x.id = existing.id}
       IN  IF changed = {} THEN
               /\ Goto(p, IF pc[p] = "update" THEN "refresh" ELSE "refresh2", loc[p])
               /\ UNCHANGED saved
           ELSE IF target = {} THEN
               /\ Reply(p, SaveRecipeCatch("StaleDataError"))
               /\ UNCHANGED saved
           ELSE
               /\ saved' = (saved \ target)
                              \cup {AssignFields(x, req[p].data, changed) : x \in target}
               /\ Goto(p, IF pc[p] = "update" THEN "refresh" ELSE "refresh2", loc[p])
    /\ UNCHANGED <<users, now, req, started, hist, jwt_secret, session, api_key, outbound, token>>

\* upsert_saved, db.refresh(...) and return.
UpsertRefresh(p) ==
    /\ pc[p] \in {"refresh", "refresh2", "refresh_item"}
    /\ LET target == {x \in saved : x.id = TheOne(loc[p]).id} IN
         IF target = {} THEN Reply(p, SaveRecipeCatch("InvalidRequestError"))
         ELSE Reply(p, Response(201, target))
    /\ UNCHANGED <<saved, users, now, req, started, hist, jwt_secret, session, api_key, outbound, token>>

\* An insert against a table that accepts a second row of the pair.
UpsertInsertUnchecked(p) ==
    /\ pc[p] = "insert"
    /\ LET item == SavedRecipe(NewId(saved), req[p].user_id, req[p].recipe_id,
                               req[p].data, now)
       IN  /\ saved' = saved \cup {item}
           /\ Goto(p, "refresh_item", {item})
    /\ UNCHANGED <<users, now, req, started, hist, jwt_secret, session, api_key, outbound, token>>

\* upsert_saved, the insert path: add the new item and commit.
UpsertInsert(p) ==
    /\ pc[p] = "insert"
    /\ LET item == SavedRecipe(NewId(saved), req[p].user_id, req[p].recipe_id,
                               req[p].data, now)
       IN  IF ViolatesUqUserRecipe(saved, req[p].user_id, req[p].recipe_id) THEN
               \* IntegrityError: rollback
               /\ Goto(p, "requery", {})
               /\ UNCHANGED saved
           ELSE
               /\ saved' = saved \cup {item}
               /\ Goto(p, "refresh_item", {item})
    /\ UNCHANGED <<users, now, req, started, hist, jwt_secret, session, api_key, outbound, token>>

\* An except branch that only re-raises the IntegrityError.
UpsertRequeryPropagates(p) ==
    /\ pc[p] = "requery"
    /\ Reply(p, SaveRecipeCatch("IntegrityError"))
    /\ UNCHANGED <<saved, users, now, req, started, hist, jwt_secret, session, api_key, outbound, token>>

\* upsert_saved, after the rollback: re-select, or re-raise.
UpsertRequery(p) ==
    /\ pc[p] = "requery"
    /\ LET found == SelectSaved(saved, req[p].user_id, req[p].recipe_id) IN
         IF Cardinality(found) > 1 THEN Reply(p, SaveRecipeCatch("MultipleResultsFound"))
         ELSE IF found # {} THEN Goto(p, "update2", found)
         ELSE Reply(p, SaveRecipeCatch("IntegrityError"))
    /\ UNCHANGED <<saved, users, now, req, started, hist, jwt_secret, session, api_key, outbound, token>>

\* remove_saved, the select; DELETE handler answers 404 when it returns False.
RemoveSelectDo(p, u, r) ==
    LET found == SelectSaved(saved, u, r) IN
        IF Cardinality(found) > 1 THEN Reply(p, Unhandled("MultipleResultsFound"))
        ELSE IF found = {} THEN Reply(p, Response(404, {}))
        ELSE Goto(p, "delete", found)

\* delete_saved_recipe_for_me: DELETE /users/me/saved/{recipe_id} for current_user.id = u
RemoveSelect(p, u, r) ==
    /\ Accept(p)
    /\ req' = [req EXCEPT ![p] = Request("remove", u, r, NoData)]
    /\ RemoveSelectDo(p, u, r)
    /\ get_db(p)
    /\ UNCHANGED <<saved, users, now, hist, jwt_secret, api_key, outbound, token>>

\* A delete that is never committed.
RemoveDeleteNoCommit(p) ==
    /\ pc[p] = "delete"
    /\ Reply(p, Response(204, {}))
    /\ UNCHANGED <<saved, users, now, req, started, hist, jwt_secret, session, api_key, outbound, token>>

\* remove_saved, delete and commit; DELETE handler answers 204 when it returns True.
RemoveDelete(p) ==
    /\ pc[p] = "delete"
    /\ saved' = {x \in saved : x.id # TheOne(loc[p]).id}
    /\ Reply(p, Response(204, {}))
    /\ UNCHANGED <<users, now, req, started, hist, jwt_secret, session, api_key, outbound, token>>

\* The response is sent; the worker is free for its next request.
Complete(p) ==
    /\ pc[p] = "done"
    /\ pc' = [pc EXCEPT ![p] = "idle"]
    /\ req' = [req EXCEPT ![p] = NoReq]
    /\ resp' = [resp EXCEPT ![p] = NoResp]
    /\ outbound' = [outbound EXCEPT ![p] = NoOutbound]
    /\ CloseSession(p)
    /\ UNCHANGED <<saved, users, now, loc, started, hist, jwt_secret, api_key, token>>

\* The sequential client reads the response and records it.
CompleteLogged(p) ==
    /\ pc[p] = "done"
    /\ pc' = [pc EXCEPT ![p] = "idle"]
    /\ req' = [req EXCEPT ![p] = NoReq]
    /\ resp' = [resp EXCEPT ![p] = NoResp]
    /\ hist' = Append(hist, [req |-> req[p], resp |-> resp[p]])
    /\ outbound' = [outbound EXCEPT ![p] = NoOutbound]
    /\ CloseSession(p)
    /\ UNCHANGED <<saved, users, now, loc, started, jwt_secret, api_key, token>>

----------------------------------------------------------------------------
(* The saved-recipe store under concurrent workers *)

RegisteredUsers ==
    {User(1, "a@x.com", [scheme |-> "bcrypt", salt |-> "s1", of |-> "secret1"], 0),
     User(2, "b@x.com", [scheme |-> "bcrypt", salt |-> "s2", of |-> "secret2"], 0)}

UserIds == {u.id : u \in RegisteredUsers}

Init ==
    /\ saved = {}
    /\ users = RegisteredUsers
    /\ now = 0
    /\ pc = [p \in Procs |-> "idle"]
    /\ req = [p \in Procs |-> NoReq]
    /\ loc = [p \in Procs |-> {}]
    /\ resp = [p \in Procs |-> NoResp]
    /\ started = 0
    /\ hist = <<>>
    /\ jwt_secret = "k"
    /\ token = NoToken
    /\ session = [p \in Procs |-> "closed"]
    /\ api_key = "key"
    /\ outbound = [p \in Procs |-> NoOutbound]

\* Time passes.
Tick ==
    /\ now < MaxClock
    /\ now' = now + 1
    /\ UNCHANGED <<saved, users, pc, req, loc, resp, started, hist, jwt_secret, session, api_key, outbound, token>>

\* Concurrent workers on the store; created_at plays no part here, so the clock stands still.
Next ==
    \/ \E p \in Procs, u \in UserIds : ListSaved(p, u)
    \/ \E p \in Procs, u \in UserIds, r \in RecipeIds, d \in FullSnapshots : UpsertSelect(p, u, r, d)
    \/ \E p \in Procs : UpsertUpdate(p)
    \/ \E p \in Procs : UpsertRefresh(p)
    \/ \E p \in Procs : UpsertInsert(p)
    \/ \E p \in Procs : UpsertRequery(p)
    \/ \E p \in Procs, u \in UserIds, r \in RecipeIds : RemoveSelect(p, u, r)
    \/ \E p \in Procs : RemoveDelete(p)
    \/ \E p \in Procs : Complete(p)

Spec == Init /\ [][Next]_vars

----------------------------------------------------------------------------
(* One client sending its requests one after the other. No insert of a lone  *)
(* client is rejected, so upsert_saved never reaches its re-query here.      *)

Client == CHOOSE p \in Procs : \A q \in Procs : p <= q

SeqNext ==
    \/ \E u \in UserIds : ListSaved(Client, u)
    \/ \E u \in UserIds, r \in RecipeIds, d \in Snapshots : UpsertSelect(Client, u, r, d)
    \/ UpsertUpdate(Client)
    \/ UpsertRefresh(Client)
    \/ UpsertInsert(Client)
    \/ \E u \in UserIds, r \in RecipeIds : RemoveSelect(Client, u, r)
    \/ RemoveDelete(Client)
    \/ CompleteLogged(Client)
    \/ Tick

SpecSeq == Init /\ [][SeqNext]_vars

----------------------------------------------------------------------------
(* api/auth.py *)

\* Clock ticks per second: datetimes carry fractions of a second, JWT dates do not.
TicksPerSecond == 2

ACCESS_TOKEN_EXPIRE_MINUTES == 60

\* timedelta(minutes=ACCESS_TOKEN_EXPIRE_MINUTES), in ticks
DefaultTtl == ACCESS_TOKEN_EXPIRE_MINUTES * 60 * TicksPerSecond

\* Ticks the clock may run past the moments the model steps to.
Slack == 3

MaxTime == DefaultTtl + Slack

\* jose turns the datetime "exp" into whole seconds since the epoch (timegm of its
\* utctimetuple), and reads the clock the same way when it validates.
SecondsOf(ticks) == ticks \div TicksPerSecond

\* pwd_context.hash / pwd_context.verify (bcrypt, salted)
get_password_hash(password, salt) == [scheme |-> "bcrypt", salt |-> salt, of |-> password]

verify_password(plain_password, password_hash) == password_hash.of = plain_password

\* get_user_by_email
get_user_by_email(table, email) == {u \in table : u.email = email}

\* An authentication that looks the user up and never verifies the password.
AuthenticateByEmailOnly(table, email, password) == get_user_by_email(table, email)

\* authenticate_user: the user, or nothing
authenticate_user(table, email, password) ==
    {u \in get_user_by_email(table, email) : verify_password(password, u.password_hash)}

\* expire = utcnow() + (expires_delta or timedelta(minutes=...)): a zero timedelta is
\* falsy, as None is.
ExpiryOf(t, ttl_given, ttl) == t + (IF ttl_given /\ ttl # 0 THEN ttl ELSE DefaultTtl)

\* create_access_token(data, expires_delta) at time t, with JWT_SECRET set
create_access_token(has_sub, sub, ttl_given, ttl, t) ==
    [kind |-> "jwt", sig |-> "good", has_sub |-> has_sub, sub |-> sub,
     exp |-> SecondsOf(ExpiryOf(t, ttl_given, ttl)),
     iat |-> t, ttl_given |-> ttl_given, ttl |-> ttl]

\* A decode with options verify_exp off.
JwtDecodesIgnoringExp(tok, t) == tok.kind = "jwt" /\ tok.sig = "good"

\* jwt.decode(token, JWT_SECRET, algorithms) at time t does not raise JWTError:
\* well-formed, signed with the secret, and not "exp < now".
JwtDecodes(tok, t) ==
    /\ tok.kind = "jwt"
    /\ tok.sig = "good"
    /\ ~(tok.exp < SecondsOf(t))

CredentialsException ==
    [status |-> 401, rows |-> {}, error |-> "Could not validate credentials"]

\* What a client can send as its bearer token: the token it holds, that token with the
\* signature broken, or a string that is no JWT.
Presented(tok, how) ==
    IF how = "asis" THEN tok
    ELSE IF how = "badsig" THEN [tok EXCEPT !.sig = "bad"]
    ELSE [NoToken EXCEPT !.kind = "garbage"]

\* get_current_user, the dependency of every /users/me route: the outcome for the
\* presented token is the user, 401, or the RuntimeError of _ensure_secret.
GetCurrentUser(p, op, r, d, how) ==
    /\ Accept(p)
    /\ how = "asis" => token.kind = "jwt"
    /\ LET tok == Presented(token, how)
           found == get_user_by_email(users, tok.sub)
           request == [Request(op, 0, r, d) EXCEPT !.token = tok]
       IN  IF jwt_secret = "" THEN
               /\ req' = [req EXCEPT ![p] = request]
               /\ Reply(p, Unhandled("RuntimeError"))
           ELSE IF ~JwtDecodes(tok, now) \/ ~tok.has_sub \/ found = {} THEN
               /\ req' = [req EXCEPT ![p] = request]
               /\ Reply(p, CredentialsException)
           ELSE
               /\ req' = [req EXCEPT ![p] = [request EXCEPT !.user_id = TheOne(found).id]]
               /\ Goto(p, "authorized", {})
    /\ get_db(p)
    /\ UNCHANGED <<saved, users, now, hist, jwt_secret, api_key, outbound, token>>

\* read_users_me: GET /users/me
read_users_me(p) ==
    /\ pc[p] = "authorized" /\ req[p].op = "me"
    /\ Reply(p, Response(200, {u \in users : u.id = req[p].user_id}))
    /\ UNCHANGED <<saved, users, now, req, started, hist, jwt_secret, session, api_key, outbound, token>>

\* list_my_saved_recipes: GET /users/me/saved
list_my_saved_recipes(p) ==
    /\ pc[p] = "authorized" /\ req[p].op = "list"
    /\ ListSavedDo(p, req[p].user_id)
    /\ UNCHANGED <<saved, users, now, req, started, hist, jwt_secret, session, api_key, outbound, token>>

\* save_recipe_for_me: POST /users/me/saved
save_recipe_for_me(p) ==
    /\ pc[p] = "authorized" /\ req[p].op = "upsert"
    /\ UpsertSelectDo(p, req[p].user_id, req[p].recipe_id)
    /\ UNCHANGED <<saved, users, now, req, started, hist, jwt_secret, session, api_key, outbound, token>>

\* delete_saved_recipe_for_me: DELETE /users/me/saved/{recipe_id}
delete_saved_recipe_for_me(p) ==
    /\ pc[p] = "authorized" /\ req[p].op = "remove"
    /\ RemoveSelectDo(p, req[p].user_id, req[p].recipe_id)
    /\ UNCHANGED <<saved, users, now, req, started, hist, jwt_secret, session, api_key, outbound, token>>

\* login: POST /auth/login; the client keeps the token it is given.
Login(p, email, password) ==
    /\ Accept(p)
    /\ req' = [req EXCEPT ![p] = [NoReq EXCEPT !.op = "login", !.email = email,
                                                !.password = password]]
    /\ LET found == authenticate_user(users, email, password) IN
         IF found = {} THEN
             /\ Reply(p, [status |-> 401, rows |-> {}, error |-> "Invalid credentials"])
             /\ UNCHANGED token
         ELSE IF jwt_secret = "" THEN
             /\ Reply(p, Unhandled("RuntimeError"))
             /\ UNCHANGED token
         ELSE
             /\ Reply(p, Response(200, {}))
             /\ token' = create_access_token(TRUE, TheOne(found).email, FALSE, 0, now)
    /\ get_db(p)
    /\ UNCHANGED <<saved, users, now, hist, jwt_secret, api_key, outbound>>

\* A direct call of create_access_token(data, expires_delta) for a client that holds no
\* token yet; the client keeps the token.
IssueToken(has_sub, sub, ttl_given, ttl) ==
    /\ jwt_secret # ""
    /\ token = NoToken
    /\ token' = create_access_token(has_sub, sub, ttl_given, ttl, now)
    /\ UNCHANGED <<saved, users, now, pc, req, loc, resp, started, hist, jwt_secret, session, api_key, outbound>>

\* Time passes: a tick (the model follows the clock tick by tick for Slack ticks after
\* the start and after each default lifetime), or the default lifetime of a token.
Advance(d) ==
    /\ now + d <= MaxTime
    /\ d = 1 => (now % DefaultTtl) < Slack
    /\ now' = now + d
    /\ UNCHANGED <<saved, users, pc, req, loc, resp, started, hist, jwt_secret, session, api_key, outbound, token>>

\* signup: POST /auth/signup, the check for an existing user.
SignupCheck(p, email, password) ==
    /\ Accept(p)
    /\ req' = [req EXCEPT ![p] = [NoReq EXCEPT !.op = "signup", !.email = email,
                                                !.password = password]]
    /\ IF get_user_by_email(users, email) # {}
         THEN Reply(p, [status |-> 400, rows |-> {},
                        error |-> "User with this email already exists"])
         ELSE Goto(p, "signup_insert", {})
    /\ get_db(p)
    /\ UNCHANGED <<saved, users, now, hist, jwt_secret, api_key, outbound, token>>

\* signup: hash the password, add the user, commit, refresh. The unique email column
\* rejects a second row for the email with an IntegrityError, which nothing catches.
SignupInsert(p, salt) ==
    /\ pc[p] = "signup_insert"
    /\ LET user == User(NewId(users), req[p].email,
                        get_password_hash(req[p].password, salt), now)
       IN  IF get_user_by_email(users, req[p].email) # {} THEN
               /\ Reply(p, Unhandled("IntegrityError"))
               /\ UNCHANGED users
           ELSE
               /\ users' = users \cup {user}
               /\ Reply(p, Response(201, {user}))
    /\ UNCHANGED <<saved, now, req, started, hist, jwt_secret, session, api_key, outbound, token>>

----------------------------------------------------------------------------
(* Concurrent signups on an empty user table *)

Passwords == {"secret1", "secret2"}

Salts == {"s1", "s2"}

SignupInit ==
    /\ saved = {}
    /\ users = {}
    /\ now = 0
    /\ pc = [p \in Procs |-> "idle"]
    /\ req = [p \in Procs |-> NoReq]
    /\ loc = [p \in Procs |-> {}]
    /\ resp = [p \in Procs |-> NoResp]
    /\ started = 0
    /\ hist = <<>>
    /\ jwt_secret = "k"
    /\ token = NoToken
    /\ session = [p \in Procs |-> "closed"]
    /\ api_key = "key"
    /\ outbound = [p \in Procs |-> NoOutbound]

SignupNext ==
    \/ \E p \in Procs, e \in Emails, pw \in Passwords : SignupCheck(p, e, pw)
    \/ \E p \in Procs, salt \in Salts : SignupInsert(p, salt)
    \/ \E p \in Procs : Complete(p)

SpecSignup == SignupInit /\ [][SignupNext]_vars

----------------------------------------------------------------------------
(* One client with its token: login, protected requests, and time passing *)

Subjects == {"a@x.com", "c@x.com"}

Lifetimes == {0, 2, 3}

TokenInit ==
    /\ saved = {}
    /\ users = RegisteredUsers
    /\ now = 0
    /\ pc = [p \in Procs |-> "idle"]
    /\ req = [p \in Procs |-> NoReq]
    /\ loc = [p \in Procs |-> {}]
    /\ resp = [p \in Procs |-> NoResp]
    /\ started = 0
    /\ hist = <<>>
    /\ jwt_secret \in {"", "k"}
    /\ token = NoToken
    /\ session = [p \in Procs |-> "closed"]
    /\ api_key = "key"
    /\ outbound = [p \in Procs |-> NoOutbound]

TokenNext ==
    \/ \E sub \in Subjects, ttl \in Lifetimes : IssueToken(TRUE, sub, TRUE, ttl)
    \/ \E sub \in Subjects : IssueToken(TRUE, sub, FALSE, 0)
    \/ IssueToken(FALSE, "", FALSE, 0)
    \/ \E e \in Subjects, pw \in Passwords : Login(Client, e, pw)
    \/ \E op \in {"me", "list", "remove"}, how \in {"asis", "badsig", "garbage"} :
          GetCurrentUser(Client, op, 55, NoData, how)
    \/ \E how \in {"asis", "badsig", "garbage"} :
          GetCurrentUser(Client, "upsert", 55, Snap(1, 1), how)
    \/ read_users_me(Client)
    \/ list_my_saved_recipes(Client)
    \/ save_recipe_for_me(Client)
    \/ delete_saved_recipe_for_me(Client)
    \/ UpsertInsert(Client)
    \/ UpsertUpdate(Client)
    \/ UpsertRefresh(Client)
    \/ RemoveDelete(Client)
    \/ Complete(Client)
    \/ \E d \in {1, DefaultTtl} : Advance(d)

SpecToken == TokenInit /\ [][TokenNext]_vars

----------------------------------------------------------------------------
(* Properties of the saved-recipe store *)

PairRows(u, r) == SelectSaved(saved, u, r)

RowById(table, id) == {x \in table : x.id = id}

\* C1: in every reachable state, under any interleaving of list, upsert and remove
\* calls, the table holds at most one row for each (user_id, recipe_id).
C1_UniquePerUserRecipe ==
    \A x, y \in saved : (x.user_id = y.user_id /\ x.recipe_id = y.recipe_id) => x = y

\* A second insert for a pair was rejected while the first one's row is there.
C1_Witness ==
    \E p \in Procs : /\ pc[p] = "requery"
                      /\ PairRows(req[p].user_id, req[p].recipe_id) # {}

\* The workers that have a request; when started equals their number, each of them
\* has served exactly one request and nothing else has run since the fresh store.
Active == {p \in Procs : req[p].op # "none"}

OnlyUpsertsOf(u, r) ==
    /\ Active # {}
    /\ started = Cardinality(Active)
    /\ \A p \in Active : /\ pc[p] = "done"
                          /\ req[p].op = "upsert"
                          /\ req[p].user_id = u
                          /\ req[p].recipe_id = r

\* C2: from a fresh store, once N concurrent upserts of one (user_id, recipe_id) have
\* all completed (and nothing else has run), the table holds exactly one row for it.
C2_ConcurrentUpsertsOneRow ==
    \A u \in UserIds, r \in RecipeIds :
        OnlyUpsertsOf(u, r) => Cardinality(PairRows(u, r)) = 1

\* Every worker has upserted the same pair, with different data, and all are done.
C2_Witness ==
    \E u \in UserIds, r \in RecipeIds :
        /\ OnlyUpsertsOf(u, r)
        /\ Active = Procs
        /\ \E p, q \in Procs : req[p].data # req[q].data

\* C3: the upsert whose insert the unique constraint rejects does not propagate the
\* error: it rolls back and goes on to re-query; the re-query takes the now-existing
\* row; the update of that row (as re-queried: no third call has changed or removed it
\* since) overwrites its snapshot fields with the call's own data and leaves the rest
\* of the row alone; and the call returns that row with 201.
C3_Step(p) ==
    LET u == req[p].user_id
        r == req[p].recipe_id
        id == TheOne(loc[p]).id
    IN  /\ (pc[p] = "insert" /\ pc'[p] # "insert" /\ PairRows(u, r) # {})
              => (pc'[p] = "requery" /\ saved' = saved)
        /\ (pc[p] = "requery" /\ pc'[p] # "requery" /\ PairRows(u, r) # {})
              => (pc'[p] = "update2" /\ loc'[p] = PairRows(u, r))
        /\ (pc[p] = "update2" /\ pc'[p] # "update2" /\ loc[p] \subseteq saved)
              => /\ pc'[p] = "refresh2"
                 /\ \A x \in loc[p] :
                       saved' = (saved \ {x})
                                  \cup {SavedRecipe(x.id, x.user_id, x.recipe_id,
                                                    req[p].data, x.created_at)}
        /\ (pc[p] = "refresh2" /\ pc'[p] # "refresh2" /\ RowById(saved, id) # {})
              => /\ pc'[p] = "done"
                 /\ resp'[p].status = 201
                 /\ resp'[p].rows = RowById(saved, id)

C3_RejectedInsertFallsBack == [][\A p \in Procs : C3_Step(p)]_vars

\* A call that lost the race has overwritten the winner's row with its own data and
\* is about to return it.
C3_Witness ==
    \E p, q \in Procs :
        /\ p # q
        /\ pc[p] = "refresh2"
        /\ req[q].op = "upsert" /\ pc[q] \in {"refresh_item", "done"}
        /\ req[q].user_id = req[p].user_id /\ req[q].recipe_id = req[p].recipe_id
        /\ req[q].data # req[p].data
        /\ \E x \in PairRows(req[p].user_id, req[p].recipe_id) : SnapOf(x) = req[p].data

----------------------------------------------------------------------------
(* Properties of the sequential client *)

IsUpsert(h) == h.req.op = "upsert"

IsRemove(h) == h.req.op = "remove"

SamePair(g, h) == g.req.user_id = h.req.user_id /\ g.req.recipe_id = h.req.recipe_id

\* The client has read all its responses and hist[i] is the latest of them.
Latest(i) == i = Len(hist) /\ pc[Client] = "idle"

\* C7: two upserts in sequence for the same (user_id, recipe_id): both answer 201, the
\* second returns the first one's row (same id, same created_at) carrying the second
\* call's six snapshot fields, the table then holds exactly that one row for the pair,
\* and a list that follows returns it as the only row of that recipe (the only row at
\* all when the two upserts were the first requests on the fresh store).
C7_UpsertTwice ==
    \A i \in 1..(Len(hist) - 1) :
        (IsUpsert(hist[i]) /\ IsUpsert(hist[i + 1]) /\ SamePair(hist[i], hist[i + 1])) =>
            LET first == hist[i]
                second == hist[i + 1]
                u == second.req.user_id
                r == second.req.recipe_id
            IN  /\ first.resp.status = 201 /\ second.resp.status = 201
                /\ Cardinality(first.resp.rows) = 1 /\ Cardinality(second.resp.rows) = 1
                /\ \A x \in first.resp.rows, y \in second.resp.rows :
                      /\ y.id = x.id /\ y.created_at = x.created_at
                      /\ y.user_id = u /\ y.recipe_id = r
                      /\ \A f \in SnapFields : y[f] = second.req.data[f]
                /\ Latest(i + 1) => PairRows(u, r) = second.resp.rows
                /\ (i + 2 <= Len(hist) /\ hist[i + 2].req.op = "list"
                      /\ hist[i + 2].req.user_id = u) =>
                      /\ hist[i + 2].resp.status = 200
                      /\ {x \in hist[i + 2].resp.rows : x.recipe_id = r} = second.resp.rows
                      /\ i = 1 => Cardinality(hist[i + 2].resp.rows) = 1

\* Upsert, later upsert of the same pair with other data in every field, then list.
C7_Witness ==
    /\ Len(hist) >= 3
    /\ IsUpsert(hist[1]) /\ IsUpsert(hist[2]) /\ SamePair(hist[1], hist[2])
    /\ \A f \in SnapFields : hist[1].req.data[f] # hist[2].req.data[f]
    /\ \E x \in hist[1].resp.rows, y \in hist[2].resp.rows : x.created_at < now
    /\ hist[3].req.op = "list" /\ hist[3].req.user_id = hist[2].req.user_id

\* C8, one remove: with a row for the pair it goes on to delete it, the delete takes
\* that row (and no other) out of the table and answers 204; with no row it answers
\* 404 at once, without an error and with the table as it was.
C8_Step ==
    LET p == Client
        u == req'[p].user_id
        r == req'[p].recipe_id
    IN  /\ (pc[p] = "idle" /\ pc'[p] # "idle" /\ req'[p].op = "remove") =>
              /\ saved' = saved
              /\ IF PairRows(u, r) = {}
                    THEN pc'[p] = "done" /\ resp'[p].status = 404 /\ resp'[p].error = ""
                    ELSE pc'[p] = "delete"
        /\ (pc[p] = "delete" /\ pc'[p] # "delete") =>
              /\ pc'[p] = "done" /\ resp'[p].status = 204 /\ resp'[p].error = ""
              /\ PairRows(u, r) # {}
              /\ saved' = saved \ PairRows(u, r)

\* C8, two removes in a row: the second answers 404, whatever the first answered, and
\* a remove right after a successful upsert of the pair answers 204.
C8_Twice ==
    \A i \in 1..(Len(hist) - 1) :
        /\ (IsRemove(hist[i]) /\ IsRemove(hist[i + 1]) /\ SamePair(hist[i], hist[i + 1])) =>
               /\ hist[i].resp.status \in {204, 404}
               /\ hist[i + 1].resp.status = 404
        /\ (IsUpsert(hist[i]) /\ hist[i].resp.status = 201 /\ IsRemove(hist[i + 1])
               /\ SamePair(hist[i], hist[i + 1])) =>
               hist[i + 1].resp.status = 204

\* C8: remove_saved deletes and reports a deletion exactly when the row exists, and two
\* removes of the same pair in a row report a deletion only the first time (204, 404).
C8_RemoveIdempotent == [][C8_Step]_vars /\ []C8_Twice

\* Upsert, remove (204), remove again (404).
C8_Witness ==
    /\ Len(hist) >= 3
    /\ IsUpsert(hist[1]) /\ IsRemove(hist[2]) /\ IsRemove(hist[3])
    /\ SamePair(hist[1], hist[2]) /\ SamePair(hist[2], hist[3])
    /\ hist[2].resp.status = 204 /\ hist[3].resp.status = 404
    /\ saved = {}

----------------------------------------------------------------------------
(* services/spoonacular.py *)

\* class SpoonacularAuthError(SpoonacularServiceError), class
\* SpoonacularServiceError(Exception), and fastapi's HTTPException: each exception class
\* with the classes an except clause matches it by.
Mro(cls) ==
    CASE cls = "SpoonacularAuthError" ->
             {"SpoonacularAuthError", "SpoonacularServiceError", "Exception"}
      [] cls = "SpoonacularServiceError" -> {"SpoonacularServiceError", "Exception"}
      [] cls = "HTTPException" -> {"HTTPException", "Exception"}
      [] OTHER -> {"Exception"}

\* What the upstream API can do with a call: no answer in time, a transport failure,
\* or a response with a status and a body.
ErrorStatuses == {400, 401, 403, 500}

\* Bodies: not JSON, JSON null, {}, an object without "id", an object with "id".
UpstreamBodies == {"not_json", "null", "empty_object", "object_without_id", "object_with_id"}

UpstreamReply(kind, status, body) == [kind |-> kind, status |-> status, body |-> body]

UpstreamOutcomes ==
    {UpstreamReply("timeout", 0, "none"), UpstreamReply("transport_error", 0, "none")}
        \cup {UpstreamReply("response", s, "not_json") : s \in ErrorStatuses}
        \cup {UpstreamReply("response", 200, b) : b \in UpstreamBodies}

Raised(cls, message) == [raised |-> cls, message |-> message, data |-> "none"]

Returned(data) == [raised |-> "none", message |-> "", data |-> data]

\* SpoonacularClient._require_key: the key is missing.
RequireKeyFails(key) == key = ""

\* SpoonacularClient._get after the call was sent: what it returns or raises for the
\* answer of the upstream API.
Get(reply) ==
    IF reply.kind = "timeout"
    THEN Raised("SpoonacularServiceError", "Spoonacular request timed out")
    ELSE IF reply.kind = "transport_error"
    THEN Raised("SpoonacularServiceError", "Spoonacular request failed")
    ELSE IF reply.status = 401 \/ reply.status = 403
    THEN Raised("SpoonacularAuthError", "Unauthorized: invalid or expired Spoonacular API key.")
    ELSE IF reply.status >= 400
    THEN Raised("SpoonacularServiceError", "Spoonacular error")
    ELSE IF reply.body = "not_json"
    THEN Raised("SpoonacularServiceError", "Invalid JSON from Spoonacular")
    ELSE Returned(reply.body)

\* A search call that passes the caller's numbers on as they are.
SearchCallUnclamped(number, offset) ==
    [path |-> "/recipes/complexSearch", number |-> number, offset |-> offset,
     recipe_id |-> 0, include_nutrition |-> FALSE]

\* SpoonacularClient.search_recipes: the call it sends.
SearchCall(number, offset) ==
    [path |-> "/recipes/complexSearch",
     number |-> MaxOf({1, IF number < 50 THEN number ELSE 50}),
     offset |-> MaxOf({0, offset}),
     recipe_id |-> 0, include_nutrition |-> FALSE]

\* SpoonacularClient.get_recipe_information: the call it sends.
InformationCall(recipe_id, include_nutrition) ==
    [path |-> "/recipes/{id}/information", number |-> 0, offset |-> 0,
     recipe_id |-> recipe_id, include_nutrition |-> include_nutrition]

----------------------------------------------------------------------------
(* api/recipes.py *)

HTTPException(status, detail) ==
    [status |-> status, rows |-> {}, error |-> detail, data |-> "none"]

Json(data) == [status |-> 200, rows |-> {}, error |-> "", data |-> data]

RecipeRequest(op, recipe_id, number, offset, include_nutrition) ==
    [op |-> op, recipe_id |-> recipe_id, number |-> number, offset |-> offset,
     include_nutrition |-> include_nutrition]

\* Except clauses that list the base class before its subclass.
ExceptClausesBaseFirst ==
    <<"SpoonacularServiceError", "SpoonacularAuthError", "Exception">>

\* The except clauses ending the try of both handlers, in the order of the code.
ExceptClauses == <<"SpoonacularAuthError", "SpoonacularServiceError", "Exception">>

\* The clause that catches an exception of class cls: the first one matching it.
CaughtBy(cls) ==
    LET i == CHOOSE i \in 1..Len(ExceptClauses) :
                 /\ ExceptClauses[i] \in Mro(cls)
                 /\ \A j \in 1..(i - 1) : ExceptClauses[j] \notin Mro(cls)
    IN  ExceptClauses[i]

\* What the except clauses of the handlers raise for an exception of the try body.
Except(exc) ==
    LET clause == CaughtBy(exc.raised)
    IN  IF clause = "SpoonacularAuthError"
        THEN HTTPException(401, "Unauthorized: missing or invalid Spoonacular API key.")
        ELSE IF clause = "SpoonacularServiceError"
        THEN HTTPException(502, "Spoonacular error")
        ELSE HTTPException(502, "Unexpected error contacting Spoonacular")

\* Query(10, ge=1, le=50) and Query(0, ge=0): fastapi answers 422 otherwise.
ValidQuery(number, offset) == number >= 1 /\ number <= 50 /\ offset >= 0

\* A handler calls the gateway: without a key _require_key raises before anything is
\* sent and the except clauses answer; with a key the call goes out.
CallGateway(p, call) ==
    IF RequireKeyFails(api_key)
    THEN /\ Reply(p, Except(Raised("SpoonacularAuthError", "SPOONACULAR_API_KEY not set.")))
         /\ outbound' = [outbound EXCEPT ![p] = NoOutbound]
    ELSE /\ Goto(p, "upstream", {})
         /\ outbound' = [outbound EXCEPT ![p] = [sent |-> <<call>>, got |-> NoReply]]

\* GET /recipes/search?number=&offset=
search_recipes(p, number, offset) ==
    /\ Accept(p)
    /\ req' = [req EXCEPT ![p] = RecipeRequest("search", 0, number, offset, FALSE)]
    /\ IF ~ValidQuery(number, offset)
       THEN /\ Reply(p, HTTPException(422, "RequestValidationError"))
            /\ outbound' = [outbound EXCEPT ![p] = NoOutbound]
       ELSE CallGateway(p, SearchCall(number, offset))
    /\ UNCHANGED <<saved, users, now, hist, jwt_secret, session, api_key, token>>

\* The search handler after the upstream answered.
SearchReturns(p, reply) ==
    /\ pc[p] = "upstream"
    /\ req[p].op = "search"
    /\ outbound' = [outbound EXCEPT ![p].got = reply]
    /\ LET r == Get(reply)
       IN  IF r.raised # "none"
           THEN Reply(p, Except(r))
           ELSE Reply(p, Json(r.data))
    /\ UNCHANGED <<saved, users, now, req, started, hist, jwt_secret, session, api_key, token>>

\* GET /recipes/{recipe_id}?include_nutrition=
get_recipe_details(p, recipe_id, include_nutrition) ==
    /\ Accept(p)
    /\ req' = [req EXCEPT ![p] = RecipeRequest("detail", recipe_id, 0, 0, include_nutrition)]
    /\ CallGateway(p, InformationCall(recipe_id, include_nutrition))
    /\ UNCHANGED <<saved, users, now, hist, jwt_secret, session, api_key, token>>

\* not data or (isinstance(data, dict) and "id" not in data)
TreatedAsNotFound(data) == data \in {"null", "empty_object", "object_without_id"}

\* The detail handler after the upstream answered. The HTTPException(404) is raised
\* inside the try, so the except clauses see it.
DetailReturns(p, reply) ==
    /\ pc[p] = "upstream"
    /\ req[p].op = "detail"
    /\ outbound' = [outbound EXCEPT ![p].got = reply]
    /\ LET r == Get(reply)
       IN  IF r.raised # "none"
           THEN Reply(p, Except(r))
           ELSE IF TreatedAsNotFound(r.data)
           THEN Reply(p, Except(Raised("HTTPException", "404: Recipe not found")))
           ELSE Reply(p, Json(r.data))
    /\ UNCHANGED <<saved, users, now, req, started, hist, jwt_secret, session, api_key, token>>

Counts == {0, 1, 50, 51}

Offsets == {-1, 0}

\* The environment either sets SPOONACULAR_API_KEY or does not.
RecipesInit ==
    /\ saved = {}
    /\ users = RegisteredUsers
    /\ now = 0
    /\ pc = [p \in Procs |-> "idle"]
    /\ req = [p \in Procs |-> NoReq]
    /\ loc = [p \in Procs |-> {}]
    /\ resp = [p \in Procs |-> NoResp]
    /\ started = 0
    /\ hist = <<>>
    /\ jwt_secret = "k"
    /\ token = NoToken
    /\ session = [p \in Procs |-> "closed"]
    /\ api_key \in {"", "key"}
    /\ outbound = [p \in Procs |-> NoOutbound]

RecipesNext ==
    \E p \in Procs :
        \/ \E number \in Counts, offset \in Offsets : search_recipes(p, number, offset)
        \/ \E reply \in UpstreamOutcomes : SearchReturns(p, reply)
        \/ \E r \in RecipeIds, n \in BOOLEAN : get_recipe_details(p, r, n)
        \/ \E reply \in UpstreamOutcomes : DetailReturns(p, reply)
        \/ Complete(p)

SpecRecipes == RecipesInit /\ [][RecipesNext]_vars

----------------------------------------------------------------------------
(* The gateway called directly, next to the search route, by one caller *)

\* What a caller of the gateway gets: the payload, or the exception raised.
GatewayResult(r) == [status |-> 0, rows |-> {}, error |-> r.raised, data |-> r.data]

\* SpoonacularClient.search_recipes(query, number, offset) called by code that holds
\* the client: the parameters are built, _get checks the key and sends the call.
gateway_search(p, number, offset) ==
    /\ Accept(p)
    /\ req' = [req EXCEPT ![p] = RecipeRequest("gateway_search", 0, number, offset, FALSE)]
    /\ IF RequireKeyFails(api_key)
       THEN /\ Reply(p, GatewayResult(Raised("SpoonacularAuthError",
                                             "SPOONACULAR_API_KEY not set.")))
            /\ outbound' = [outbound EXCEPT ![p] = NoOutbound]
       ELSE /\ Goto(p, "upstream", {})
            /\ outbound' = [outbound EXCEPT
                               ![p] = [sent |-> <<SearchCall(number, offset)>>,
                                       got |-> NoReply]]
    /\ UNCHANGED <<saved, users, now, hist, jwt_secret, session, api_key, token>>

\* _get after the upstream answered a direct call.
GatewayReturns(p, reply) ==
    /\ pc[p] = "upstream"
    /\ req[p].op = "gateway_search"
    /\ outbound' = [outbound EXCEPT ![p].got = reply]
    /\ Reply(p, GatewayResult(Get(reply)))
    /\ UNCHANGED <<saved, users, now, req, started, hist, jwt_secret, session, api_key, token>>

CallerCounts == {-1, 0, 1, 10, 50, 51, 999}

CallerOffsets == {-1, 0, 3}

GatewayNext ==
    \/ \E number \in CallerCounts, offset \in CallerOffsets :
           gateway_search(Client, number, offset)
    \/ \E reply \in UpstreamOutcomes : GatewayReturns(Client, reply)
    \/ \E number \in CallerCounts, offset \in CallerOffsets :
           search_recipes(Client, number, offset)
    \/ \E reply \in UpstreamOutcomes : SearchReturns(Client, reply)
    \/ Complete(Client)

SpecGateway == RecipesInit /\ [][GatewayNext]_vars

----------------------------------------------------------------------------
(* Requests that use a get_db session, every exit path, under fair scheduling *)

\* One registered user; signups are for an email that is still free.
SessionInit ==
    /\ saved = {}
    /\ users = {u \in RegisteredUsers : u.email = "a@x.com"}
    /\ now = 0
    /\ pc = [p \in Procs |-> "idle"]
    /\ req = [p \in Procs |-> NoReq]
    /\ loc = [p \in Procs |-> {}]
    /\ resp = [p \in Procs |-> NoResp]
    /\ started = 0
    /\ hist = <<>>
    /\ jwt_secret = "k"
    /\ token = NoToken
    /\ session = [p \in Procs |-> "closed"]
    /\ api_key = "key"
    /\ outbound = [p \in Procs |-> NoOutbound]

\* The steps of a request that has been accepted, up to the close of its session.
Finish(p) ==
    \/ UpsertUpdate(p)
    \/ UpsertRefresh(p)
    \/ UpsertInsert(p)
    \/ UpsertRequery(p)
    \/ RemoveDelete(p)
    \/ SignupInsert(p, "s1")
    \/ Complete(p)

SessionNext ==
    \E p \in Procs :
        \/ \E u \in {x.id : x \in users} : ListSaved(p, u)
        \/ \E r \in RecipeIds : UpsertSelect(p, 1, r, Snap(1, 1))
        \/ \E r \in RecipeIds : RemoveSelect(p, 1, r)
        \/ SignupCheck(p, "b@x.com", "secret2")
        \/ Finish(p)

\* A handler runs in a worker thread until it returns or raises, and the dependency's
\* exit code runs after it: an accepted request is not left waiting forever.
SpecSession ==
    SessionInit /\ [][SessionNext]_vars /\ \A p \in Procs : WF_vars(Finish(p))

----------------------------------------------------------------------------
(* Concurrent upserts of one pair with snapshots that differ in part *)

PairNext ==
    \E p \in Procs :
        \/ \E d \in Snapshots : UpsertSelect(p, 1, 55, d)
        \/ UpsertUpdate(p)
        \/ UpsertRefresh(p)
        \/ UpsertInsert(p)
        \/ UpsertRequery(p)
        \/ Complete(p)

SpecPair == Init /\ [][PairNext]_vars

----------------------------------------------------------------------------
(* Two users at work on a store that already holds a saved recipe *)

\* User 1 has saved recipe 55 before.
IsolationInit ==
    /\ saved = {SavedRecipe(1, 1, 55, Snap(1, 1), 0)}
    /\ users = RegisteredUsers
    /\ now = 0
    /\ pc = [p \in Procs |-> "idle"]
    /\ req = [p \in Procs |-> NoReq]
    /\ loc = [p \in Procs |-> {}]
    /\ resp = [p \in Procs |-> NoResp]
    /\ started = 0
    /\ hist = <<>>
    /\ jwt_secret = "k"
    /\ token = NoToken
    /\ session = [p \in Procs |-> "closed"]
    /\ api_key = "key"
    /\ outbound = [p \in Procs |-> NoOutbound]

SpecIsolation == IsolationInit /\ [][Next]_vars

----------------------------------------------------------------------------
(* Properties of authentication *)

SignupDuplicate ==
    [status |-> 400, rows |-> {}, error |-> "User with this email already exists"]

\* C4: under any interleaving of signups, every signup ends with 201 or with the
\* duplicate-email answer (400 "already exists"), never with another failure; at most
\* one signup per email gets 201; the user table never holds an email twice.
C4_SignupExactlyOnce ==
    /\ \A p \in Procs :
          (pc[p] = "done" /\ req[p].op = "signup") =>
              (resp[p].status = 201 \/ resp[p] = SignupDuplicate)
    /\ \A p, q \in Procs :
          (p # q /\ pc[p] = "done" /\ pc[q] = "done" /\ req[p].op = "signup"
             /\ req[q].op = "signup" /\ req[p].email = req[q].email) =>
              ~(resp[p].status = 201 /\ resp[q].status = 201)
    /\ \A u, v \in users : u.email = v.email => u = v

ProtectedOps == {"me", "list", "upsert", "remove"}

\* The client sends a request to a /users/me route in this step.
SendsProtected(p) == pc[p] = "idle" /\ pc'[p] # "idle" /\ req'[p].op \in ProtectedOps

UserIdOf(email) == {u.id : u \in get_user_by_email(users, email)}

Authorized(p, email) == pc'[p] = "authorized" /\ {req'[p].user_id} = UserIdOf(email)

Refused(p) == pc'[p] = "done" /\ resp'[p] = CredentialsException /\ saved' = saved

\* The lifetime the caller of create_access_token asked for, in ticks.
LifetimeOf(tok) == IF tok.ttl_given THEN tok.ttl ELSE DefaultTtl

\* C5: a token issued for a registered subject at time t with lifetime ttl (the default
\* lifetime when none is given) is accepted, and resolves to that subject, at every
\* instant before t + ttl, and is rejected with 401 at every instant after t + ttl.
C5_Step ==
    LET p == Client
        tok == req'[p].token
    IN  (SendsProtected(p) /\ tok = token /\ tok.kind = "jwt" /\ tok.has_sub
           /\ UserIdOf(tok.sub) # {}) =>
            /\ now < tok.iat + LifetimeOf(tok) => Authorized(p, tok.sub)
            /\ now > tok.iat + LifetimeOf(tok) => Refused(p)

C5_TokenLifetime == [][C5_Step]_vars

\* The token verifies at this instant: a JWT, signed with the secret, not past its exp.
Verifies(tok) == tok.kind = "jwt" /\ tok.sig = "good" /\ SecondsOf(now) <= tok.exp

Valid(tok) == Verifies(tok) /\ tok.has_sub /\ UserIdOf(tok.sub) # {}

\* Only an authorized request of the client changes the table.
OnlyAuthorizedWrites ==
    saved' # saved =>
        /\ pc[Client] \in {"insert", "update", "delete"}
        /\ \E u \in users : u.id = req[Client].user_id /\ u.email = req[Client].token.sub

\* C6 as stated: get_current_user yields the identity exactly when the token verifies
\* and its subject is a stored user; in every other case the request ends with the one
\* 401 "Could not validate credentials" and no protected operation takes effect.
C6_StepAsStated ==
    LET p == Client
        tok == req'[p].token
    IN  /\ SendsProtected(p) => IF Valid(tok) THEN Authorized(p, tok.sub) ELSE Refused(p)
        /\ OnlyAuthorizedWrites

C6_UniformUnauthorized == [][C6_StepAsStated]_vars

ConfigurationError ==
    pc'[Client] = "done" /\ resp'[Client] = Unhandled("RuntimeError") /\ saved' = saved

\* C6 as amended: with JWT_SECRET set, what C6 states; with JWT_SECRET not set, every
\* request to a protected route ends with the RuntimeError of _ensure_secret (500),
\* whatever the token, and no protected operation takes effect.
C6_StepAmended ==
    LET p == Client
        tok == req'[p].token
    IN  /\ SendsProtected(p) =>
              IF jwt_secret = "" THEN ConfigurationError
              ELSE IF Valid(tok) THEN Authorized(p, tok.sub)
              ELSE Refused(p)
        /\ OnlyAuthorizedWrites

C6_UniformUnauthorizedWhenConfigured == [][C6_StepAmended]_vars

\* A request with a verified, unexpired token whose subject is no stored user was
\* answered with the 401, and nothing was saved.
C6_Witness ==
    /\ pc[Client] = "done"
    /\ req[Client].op = "upsert"
    /\ resp[Client] = CredentialsException
    /\ Verifies(req[Client].token) /\ req[Client].token.has_sub
    /\ UserIdOf(req[Client].token.sub) = {}
    /\ saved = {}

----------------------------------------------------------------------------
(* Properties of the recipe routes *)

\* A search or detail request that has been answered after passing validation.
Answered(p) ==
    /\ pc[p] = "done"
    /\ req[p].op \in {"search", "detail"}
    /\ resp[p].status # 422

GotResponse(p) == outbound[p].got.kind = "response"

\* C9: for GET /recipes/{recipe_id}, when the gateway call succeeds but returns an
\* empty payload or a payload without an "id" field, the answer is 404.
C9_EmptyDetailIsNotFound ==
    \A p \in Procs :
        (/\ Answered(p) /\ req[p].op = "detail"
         /\ GotResponse(p) /\ outbound[p].got.status < 400
         /\ outbound[p].got.body \in {"null", "empty_object", "object_without_id"}) =>
            resp[p].status = 404

\* C10: for search and detail requests, a missing API key and an upstream 401/403 are
\* answered with 401, never 502; a timeout, a transport error, another status >= 400
\* and invalid JSON are answered with 502; with the API key missing nothing is sent.
C10_GatewayFailuresMapped ==
    /\ api_key = "" => \A p \in Procs : outbound[p] = NoOutbound
    /\ \A p \in Procs :
          Answered(p) =>
              LET got == outbound[p].got
              IN  /\ api_key = "" => resp[p].status = 401
                  /\ got.kind \in {"timeout", "transport_error"} => resp[p].status = 502
                  /\ (GotResponse(p) /\ got.status \in {401, 403}) => resp[p].status = 401
                  /\ (GotResponse(p) /\ got.status >= 400 /\ got.status \notin {401, 403}) =>
                         resp[p].status = 502
                  /\ (GotResponse(p) /\ got.status < 400 /\ got.body = "not_json") =>
                         resp[p].status = 502

\* One request was answered 401 for an upstream 403 while another was answered 502
\* for a timeout.
C10_Witness ==
    \E p, q \in Procs :
        /\ Answered(p) /\ GotResponse(p) /\ outbound[p].got.status = 403
        /\ resp[p].status = 401
        /\ Answered(q) /\ outbound[q].got.kind = "timeout" /\ resp[q].status = 502
        /\ req[p].op = "search" /\ req[q].op = "detail"

----------------------------------------------------------------------------
(* Properties of the search parameters *)

\* max(1, min(count, 50)) and max(0, offset), written out.
ClampedCount(n) == IF n < 1 THEN 1 ELSE IF n > 50 THEN 50 ELSE n

ClampedOffset(o) == IF o < 0 THEN 0 ELSE o

\* The request of worker p has sent exactly one search call, with the clamped numbers.
SentClamped(p) ==
    /\ Len(outbound[p].sent) = 1
    /\ outbound[p].sent[1].path = "/recipes/complexSearch"
    /\ outbound[p].sent[1].number = ClampedCount(req[p].number)
    /\ outbound[p].sent[1].offset = ClampedOffset(req[p].offset)

\* C11 as stated: with the API key set, every search, through the route or through the
\* gateway, whatever count and offset the caller supplied, has sent upstream the count
\* max(1, min(count, 50)) and the offset max(0, offset) once it is past the send.
C11_SearchClamped ==
    \A p \in Procs :
        (/\ req[p].op \in {"search", "gateway_search"}
         /\ pc[p] \in {"upstream", "done"}
         /\ api_key # "") => SentClamped(p)

\* C11 as amended: the clamp is what SpoonacularClient.search_recipes does for every
\* count and offset; GET /recipes/search answers 422 and sends nothing for a count
\* outside 1..50 or a negative offset, and sends the caller's numbers otherwise.
C11_GatewayClampsRouteRejects ==
    \A p \in Procs :
        (pc[p] \in {"upstream", "done"} /\ api_key # "") =>
            /\ req[p].op = "gateway_search" => SentClamped(p)
            /\ (req[p].op = "search" /\ ValidQuery(req[p].number, req[p].offset)) =>
                   /\ SentClamped(p)
                   /\ outbound[p].sent[1].number = req[p].number
                   /\ outbound[p].sent[1].offset = req[p].offset
            /\ (req[p].op = "search" /\ ~ValidQuery(req[p].number, req[p].offset)) =>
                   /\ pc[p] = "done"
                   /\ resp[p].status = 422
                   /\ outbound[p].sent = <<>>

\* A direct search with number=999 and a negative offset went upstream as 50 and 0.
C11_Witness ==
    /\ req[Client].op = "gateway_search"
    /\ req[Client].number = 999 /\ req[Client].offset = -1
    /\ pc[Client] = "done"
    /\ Len(outbound[Client].sent) = 1
    /\ outbound[Client].sent[1].number = 50 /\ outbound[Client].sent[1].offset = 0

----------------------------------------------------------------------------
(* Properties of login *)

InvalidCredentials == [status |-> 401, rows |-> {}, error |-> "Invalid credentials"]

\* The client sends a login in this step.
SendsLogin(p) == pc[p] = "idle" /\ pc'[p] # "idle" /\ req'[p].op = "login"

\* The submitted email is registered and the password is the one its hash was made of.
GoodCredentials(email, password) ==
    \E u \in users : u.email = email /\ u.password_hash.of = password

\* The login is answered 200 with a signed token whose subject is the email.
TokenIssuedFor(p, email) ==
    /\ pc'[p] = "done" /\ resp'[p].status = 200
    /\ token'.kind = "jwt" /\ token'.sig = "good"
    /\ token'.has_sub /\ token'.sub = email
    /\ \E u \in users : u.email = email

LoginRefused(p) == pc'[p] = "done" /\ resp'[p] = InvalidCredentials /\ token' = token

\* C12 as stated: POST /auth/login issues a bearer token whose subject is the stored
\* user's email exactly when the email is registered and the password verifies against
\* the stored hash; otherwise it answers the one 401 "Invalid credentials", no token.
C12_StepAsStated ==
    LET p == Client
    IN  SendsLogin(p) =>
            IF GoodCredentials(req'[p].email, req'[p].password)
            THEN TokenIssuedFor(p, req'[p].email)
            ELSE LoginRefused(p)

C12_LoginIssuesToken == [][C12_StepAsStated]_vars

\* C12 as amended: what C12 states when JWT_SECRET is set; when it is not set, bad
\* credentials are still answered 401 and good credentials end with the RuntimeError of
\* _ensure_secret (500) and no token.
C12_StepAmended ==
    LET p == Client
    IN  SendsLogin(p) =>
            IF ~GoodCredentials(req'[p].email, req'[p].password)
            THEN LoginRefused(p)
            ELSE IF jwt_secret = ""
            THEN /\ pc'[p] = "done" /\ resp'[p] = Unhandled("RuntimeError")
                 /\ token' = token
            ELSE TokenIssuedFor(p, req'[p].email)

C12_LoginIssuesTokenWhenConfigured == [][C12_StepAmended]_vars

\* A login with the registered email and its password was answered 200 and the client
\* holds a token for that email.
C12_Witness ==
    /\ pc[Client] = "done" /\ req[Client].op = "login"
    /\ req[Client].email = "a@x.com" /\ req[Client].password = "secret1"
    /\ resp[Client].status = 200
    /\ token.kind = "jwt" /\ token.sub = "a@x.com"

----------------------------------------------------------------------------
(* Properties of the sessions *)

\* C13: every session acquired through get_db is eventually closed, whether the
\* request returned, raised an HTTP error (the rollback-and-retry path of the upsert
\* included) or failed with an unexpected exception; a worker whose request has
\* finished holds no open session.
C13_SessionsClosed ==
    /\ [](\A p \in Procs : pc[p] = "idle" => session[p] = "closed")
    /\ \A p \in Procs : (session[p] = "open") ~> (session[p] = "closed")

\* A signup has failed with the unhandled IntegrityError and its session is still to
\* be closed, while the other worker has finished its request and holds no session.
C13_Witness ==
    \E p, q \in Procs :
        /\ pc[p] = "done" /\ resp[p].status = 500 /\ session[p] = "open"
        /\ q # p /\ pc[q] = "idle" /\ session[q] = "closed" /\ started >= 2

----------------------------------------------------------------------------
(* Properties of upserts racing with removes *)

\* C14: under any interleaving of upserts and removes of one pair, no upsert ends with
\* a propagated integrity error (POST /users/me/saved never answers 400 because of a
\* race), also when a remove commits between the rejected insert and the re-query.
C14_UpsertNeverPropagatesIntegrityError ==
    \A p \in Procs :
        (pc[p] = "done" /\ req[p].op = "upsert") =>
            ~(resp[p].status = 400 /\ resp[p].error = "IntegrityError")

----------------------------------------------------------------------------
(* Properties of concurrent updates of one row *)

\* C15: the six snapshot fields of a stored row all come from the snapshot of one
\* single upsert call; the row is never a mixture of the fields of two calls. (Every
\* call submits one of Snapshots, so a row whose fields are none of them is a mixture.)
C15_RowFromOneCall == \A row \in saved : SnapOf(row) \in Snapshots

----------------------------------------------------------------------------
(* Properties of concurrent removes *)

\* C16: a remove_saved call that reports a deletion (returns true, answered 204) has
\* deleted a row, so that of several concurrent removes of one row exactly one reports
\* the deletion: calls reporting a deletion never outnumber the rows deleted.
C16_Step ==
    \A p \in Procs :
        (/\ pc[p] = "delete" /\ pc'[p] = "done"
         /\ req[p].op = "remove" /\ resp'[p].status = 204) =>
            Cardinality(saved') = Cardinality(saved) - 1

C16_OneRemoveReportsDeletion == [][C16_Step]_vars

----------------------------------------------------------------------------
(* Properties of the isolation between users *)

RowsOfOthers(table, u) == {x \in table : x.user_id # u}

\* C17: an upsert_saved or remove_saved call made for user U leaves the rows of every
\* other user as they are; list_saved(U) returns exactly the rows whose user_id is U;
\* a row keeps its user_id and recipe_id for as long as it exists.
C17_Step ==
    /\ \A p \in Procs :
          (pc[p] # "idle" /\ pc'[p] # pc[p] /\ req[p].op \in {"upsert", "remove"}) =>
              RowsOfOthers(saved', req[p].user_id) = RowsOfOthers(saved, req[p].user_id)
    /\ \A p \in Procs :
          (pc[p] = "idle" /\ pc'[p] = "done" /\ req'[p].op = "list") =>
              resp'[p].rows = {x \in saved : x.user_id = req'[p].user_id}
    /\ \A x \in saved, y \in saved' :
          x.id = y.id => (x.user_id = y.user_id /\ x.recipe_id = y.recipe_id)

C17_IsolatedPerUser == [][C17_Step]_vars

====
